---- MODULE Spec2Model ----
(***************************************************************************)
(* Model of src/src/create.rs (unbox): the `create` subcommand that        *)
(* provisions a toolbox root filesystem from a tar archive, optionally     *)
(* obtained from an OCI engine (docker / podman).                          *)
(*                                                                         *)
(* One run of `create` is a walk of `pc` through the statements of         *)
(* create, get_image, setup_new_root and unpack_tar.  Every fallible call  *)
(* has its failure as a nondeterministic outcome; `?` turns a failure into *)
(* the error return of create, `expect` turns it into a panic.             *)
(* The progress spinner (Spinner, `quiet`) holds no data the pipeline      *)
(* reads and is left out.                                                  *)
(***************************************************************************)
EXTENDS Naturals, Sequences, FiniteSets, TLC

\* ---------------------------------------------------------------- bounds
\* Number of entries of the archive a run of create extracts (the extraction
\* itself is studied on larger archives, under SpecUnpack).
MaxEntries == 1
\* Number of entries of the archive when unpack_tar is studied on its own.
MaxUnpackEntries == 4
\* Number of characters the engine prints on `create`'s standard output.
MaxOut == 2

\* ------------------------------------------------------------ vocabulary
NoneV == "None"

\* Paths are sequences of components, relative to the archive root (and to
\* the target directory once unpacked).
P_a      == <<"a">>
P_ab     == <<"a", "b">>
P_abf    == <<"a", "b", "file.txt">>
P_af2    == <<"a", "file2.txt">>
P_etc    == <<"etc">>
P_resolv == <<"etc", "resolv.conf">>
P_host   == <<"host">>
P_proc   == <<"proc">>
P_sys    == <<"sys">>
P_dev    == <<"dev">>
\* A path that leaves the destination.
P_up     == <<"..", "evil">>

\* The paths under the target whose state the model tracks.
TrackedPaths ==
    {P_a, P_ab, P_abf, P_af2, P_etc, P_resolv, P_host, P_proc, P_sys, P_dev}

\* The archive entries archives are built from: a path and the kind recorded
\* in the tar header.
EntryU ==
    { [path |-> P_a,    kind |-> "dir"],
      [path |-> P_ab,   kind |-> "dir"],
      [path |-> P_abf,  kind |-> "file"],
      [path |-> P_af2,  kind |-> "file"],
      [path |-> P_etc,  kind |-> "dir"],
      [path |-> P_host, kind |-> "file"],
      [path |-> P_up,   kind |-> "file"] }

Injective(s) == \A i, j \in DOMAIN s : s[i] = s[j] => i = j

\* Archives: up to max distinct entries, in any order.
ArchivesUpTo(max) ==
    { s \in UNION { [1..n -> EntryU] : n \in 0..max } : Injective(s) }

ArchivePaths(ar) == { ar[i].path : i \in DOMAIN ar }

Parent(p) == SubSeq(p, 1, Len(p) - 1)

IsPrefix(q, p) == Len(q) <= Len(p) /\ SubSeq(p, 1, Len(q)) = q

\* What the command line can supply for each field of struct Create
\* (`name` is fixed: every run is for the same toolbox; `quiet` is left out).
TarArgs    == {NoneV, "rootfs.tar"}
ImageArgs  == {NoneV, "alpine"}
EngineArgs == {NoneV, "docker", "podman"}
ShellArgs  == {NoneV, "/bin/zsh"}

\* A field of the arguments the run has not read yet.
Unread == "unread"

\* Characters of an engine's standard output.
Chars == {"c", " ", "\n"}

Outputs == UNION { [1..n -> Chars] : n \in 0..MaxOut }

\* ------------------------------------------------------------ str::trim
IsWhitespace(c) == c \in {" ", "\n"}

RECURSIVE TrimStart(_)
TrimStart(s) ==
    IF s = <<>> THEN s
    ELSE IF IsWhitespace(Head(s)) THEN TrimStart(Tail(s)) ELSE s

RECURSIVE TrimEnd(_)
TrimEnd(s) ==
    IF s = <<>> THEN s
    ELSE IF IsWhitespace(s[Len(s)]) THEN TrimEnd(SubSeq(s, 1, Len(s) - 1)) ELSE s

Trim(s) == TrimEnd(TrimStart(s))


\* ---------------------------------------------------- the target's tree
\* A node of the tree under the target.  For a directory, `meta` says where
\* its metadata (mode, mtime) stands:
\*   "default"  created on the way (create_dir_all), never set from an entry
\*   "recorded" set from its archive entry and not changed since
\*   "touched"  set from its archive entry, then a child was created in it:
\*              the kernel moved its mtime off the recorded value
Absent     == [kind |-> "none", meta |-> "none"]
FileNode   == [kind |-> "file", meta |-> "none"]
DefaultDir == [kind |-> "dir",  meta |-> "default"]

EmptyTree == [p \in TrackedPaths |-> Absent]

\* Creating, replacing or removing a name in directory q updates q's mtime.
\* (<<>> is the target itself, whose metadata the model does not track.)
Touch(f, q) ==
    IF q \in TrackedPaths /\ f[q].kind = "dir" /\ f[q].meta = "recorded"
    THEN [f EXCEPT ![q].meta = "touched"]
    ELSE f

CreateNode(f, p, node) == Touch([f EXCEPT ![p] = node], Parent(p))

\* create_dir_all(p), from the component at position k on: every missing
\* prefix of p is created with default metadata.
RECURSIVE MkDirs(_, _, _)
MkDirs(f, p, k) ==
    IF k > Len(p) THEN f
    ELSE LET q == SubSeq(p, 1, k) IN
         IF f[q].kind = "none"
         THEN MkDirs(CreateNode(f, q, DefaultDir), p, k + 1)
         ELSE MkDirs(f, p, k + 1)

\* create_dir_all(p) can succeed: no prefix of p, nor p, is a non-directory.
CanMkDirs(f, p) ==
    \A k \in 1..Len(p) : f[SubSeq(p, 1, k)].kind # "file"

\* ------------------------------------------------ tar::Entry::unpack_in
\* A path with a `..` component is not unpacked (unpack_in answers Ok(false)).
Escapes(p) == \E k \in DOMAIN p : p[k] = ".."

\* unpack_in can write entry e into tree f.
CanUnpack(f, e) ==
    IF Escapes(e.path) THEN TRUE
    ELSE /\ CanMkDirs(f, Parent(e.path))
         /\ e.kind = "dir"  => f[e.path].kind # "file"
         /\ e.kind = "file" => f[e.path].kind # "dir"

\* An unpack_in that clears the destination before it writes the entry.
UnpackInCleared(f, e) ==
    IF Escapes(e.path) THEN f
    ELSE CreateNode(MkDirs(EmptyTree, Parent(e.path), 1), e.path,
                    IF e.kind = "dir" THEN DefaultDir ELSE FileNode)

\* The tree after unpack_in(e): missing ancestors are created, then the entry
\* itself; a directory entry's recorded metadata is applied to the directory.
UnpackIn(f, e) ==
    IF Escapes(e.path) THEN f
    ELSE LET g == MkDirs(f, Parent(e.path), 1) IN
         IF e.kind = "dir"
         THEN LET h == IF g[e.path].kind = "none"
                       THEN CreateNode(g, e.path, DefaultDir)
                       ELSE g
              IN  [h EXCEPT ![e.path].meta = "recorded"]
         ELSE CreateNode(g, e.path, FileNode)

\* entry.path_bytes().len(): the components, the separators between them and,
\* for a directory entry, the trailing slash.
RECURSIVE ComponentBytes(_)
ComponentBytes(p) ==
    IF p = <<>> THEN 0 ELSE Len(Head(p)) + ComponentBytes(Tail(p))

PathBytesLen(e) ==
    ComponentBytes(e.path) + (Len(e.path) - 1)
        + (IF e.kind = "dir" THEN 1 ELSE 0)

Range(s) == { s[i] : i \in DOMAIN s }

\* Any sequence of s's entries of s's length: entries may repeat or be lost.
Arrangements(s) == [DOMAIN s -> Range(s)]

Orderings(s) ==
    { t \in [DOMAIN s -> Range(s)] : Range(t) = Range(s) }

\* dirs.sort_unstable_by_key(|b| Reverse(b.path_bytes().len())): any order
\* of the same entries with non-increasing key; ties fall either way.
SortedByKey(t) ==
    \A i, j \in DOMAIN t : i < j => PathBytesLen(t[i]) >= PathBytesLen(t[j])

\* No sort: the deferred entries stay in archive order.
ArchiveOrder(s) == {s}

SortUnstableByKey(s) == { t \in Orderings(s) : SortedByKey(t) }


\* ------------------------------------------------- external collaborators
\* crate::config and crate::namespaces are used by create.rs through these
\* calls only.
\* Config::new(name)?: reads the configuration and yields the target path.
ConfigNewOutcomes == {"ok", "err"}

\* config.write(name)?: persists the configuration.
ConfigWriteOutcomes == {"ok", "err"}

\* Namespace::start(flags, mappings)?: the namespace-creation syscall is
\* accepted or rejected; once accepted the child configures the UID/GID
\* mapping, which succeeds or not.
NamespaceStartOutcomes == {"ok", "err"}

MappingOutcomes == {"mapped", "failed"}

\* ns.wait(): joins the child; a mapping that could not be configured is
\* fatal there.
NamespaceWait(m) == IF m = "failed" THEN "fatal" ELSE "joined"

\* Command::output(): the binary cannot be executed, or it ran and exited
\* with status 0 or with a failing status.
SpawnOutcomes == {"noexec", "exit0", "exit1"}

\* ------------------------------------------------------ statement order
\* create without its existence check.
CreateOrderNoEnsure(l) ==
    CASE l = "config_new"   -> "create_root"
      [] l = "ensure"       -> "create_root"
      [] l = "create_root"  -> "config_write"
      [] l = "config_write" -> "dispatch"

\* create, lines 54-64.
CreateOrder(l) ==
    CASE l = "config_new"   -> "ensure"
      [] l = "ensure"       -> "create_root"
      [] l = "create_root"  -> "config_write"
      [] l = "config_write" -> "dispatch"

\* get_image, lines 166-173, and its caller's next statement (line 78).
GetImageOrderRmFirst(l) ==
    CASE l = "spawn_create" -> "spawn_rm"
      [] l = "spawn_rm"     -> "spawn_export"
      [] l = "spawn_export" -> "ns_start"

GetImageOrder(l) ==
    CASE l = "spawn_create" -> "spawn_export"
      [] l = "spawn_export" -> "spawn_rm"
      [] l = "spawn_rm"     -> "ns_start"

\* setup_new_root, lines 126-137.
SetupOrderNoWait(l) ==
    CASE l = "ns_start"    -> "unpack_tar"
      [] l = "ns_wait"     -> "unpack_tar"
      [] l = "unpack_tar"  -> "create_dirs"
      [] l = "create_dirs" -> "resolv"
      [] l = "resolv"      -> "return"

SetupOrderResolvFirst(l) ==
    CASE l = "ns_start"    -> "ns_wait"
      [] l = "ns_wait"     -> "unpack_tar"
      [] l = "unpack_tar"  -> "resolv"
      [] l = "resolv"      -> "create_dirs"
      [] l = "create_dirs" -> "return"

SetupOrder(l) ==
    CASE l = "ns_start"    -> "ns_wait"
      [] l = "ns_wait"     -> "unpack_tar"
      [] l = "unpack_tar"  -> "create_dirs"
      [] l = "create_dirs" -> "resolv"
      [] l = "resolv"      -> "return"

\* The placeholder directories of setup_new_root, line 132.
PlaceholderDirsShort == <<P_host, P_proc, P_sys>>

PlaceholderDirs == <<P_host, P_proc, P_sys, P_dev>>

\* ------------------------------------------------------------------ state
VARIABLES
    pc,          \* the statement create is at; "idle" between runs
    args,        \* the arguments of the current run, as far as it read them
    result,      \* how the last run ended: "none", "ok", "err", "panic"
    err,         \* the message of the error or panic
    rootExists,  \* the target directory (config.image) exists
    fs,          \* the tree under the target
    cfg,         \* the persisted configuration: NoneV or the shell written
    tmpTar,      \* /tmp/unbox-<name>-image.tar exists
    spawnLog,    \* the engine subprocesses spawned in this run, in order
    createOut,   \* get_image: standard output of `create` (Output.stdout)
    cid,         \* get_image: the container id
    ns,          \* the namespace: "none", "started", "joined"
    mapping,     \* outcome of the child's UID/GID mapping configuration
    tarSrc,      \* the path of the archive to extract: args.tar or TarFile
    archive,     \* unpack_tar: the entries of the opened archive
    cwdDirs,     \* paths of the archive that are directories in the cwd
    idx,         \* unpack_tar: position of the entries iterator
    dirs,        \* unpack_tar: the deferred entries (Vec dirs)
    unpacked,    \* the entries unpack_in was called on in this run, in order
    steps,       \* the statements executed in this run, in order
    snap         \* the disk as it was when the current run was invoked

vars == <<pc, args, result, err, rootExists, fs, cfg, tmpTar, spawnLog,
          createOut, cid, ns, mapping, tarSrc, archive, cwdDirs, idx, dirs,
          unpacked, steps, snap>>

disk     == <<rootExists, fs, cfg, tmpTar>>
engineSt == <<spawnLog, createOut, cid>>
nsSt     == <<ns, mapping>>
tarSt    == <<tarSrc, archive, cwdDirs, idx, dirs, unpacked>>
callSt   == <<args, snap>>

Disk == [root |-> rootExists, fs |-> fs, cfg |-> cfg, tmpTar |-> tmpTar]

\* The arguments are fixed when create is invoked.  The model draws each
\* field at the statement that first reads it, which yields the same runs as
\* drawing them all at the call.
NoArgs == [tar |-> Unread, image |-> Unread, engine |-> Unread, shell |-> Unread]

Init ==
    /\ pc = "idle"
    /\ args = NoArgs
    /\ result = "none"
    /\ err = NoneV
    /\ rootExists = FALSE
    /\ fs = EmptyTree
    /\ cfg = NoneV
    /\ tmpTar = FALSE
    /\ spawnLog = <<>>
    /\ createOut = <<>>
    /\ cid = <<>>
    /\ ns = "none"
    /\ mapping = NoneV
    /\ tarSrc = NoneV
    /\ archive = <<>>
    /\ cwdDirs = {}
    /\ idx = 1
    /\ dirs = <<>>
    /\ unpacked = <<>>
    /\ steps = <<>>
    /\ snap = [root |-> FALSE, fs |-> EmptyTree, cfg |-> NoneV, tmpTar |-> FALSE]

\* ---------------------------------------------------------- control flow
\* Continue at statement l; "return" is setup_new_root's Ok(()), which is
\* also create's result.
Goto(l) ==
    IF l = "return"
    THEN pc' = "idle" /\ result' = "ok" /\ err' = NoneV
    ELSE pc' = l /\ UNCHANGED <<result, err>>

\* `?` on an Err, eyre::ensure!, or an explicit Err(..): create returns it.
Fail(msg) == pc' = "idle" /\ result' = "err" /\ err' = msg

\* `expect` on an Err: the process panics.
Panic(msg) == pc' = "idle" /\ result' = "panic" /\ err' = msg

Did(step) == steps' = Append(steps, step)

E_EXISTS   == "There is already an image with that name"
E_MKROOT   == "Could not create the new root directory"
E_NOENGINE == "A valid engine has not been provided"
E_NOSOURCE == "No tar archive or valid OCI arguments have been provided"
E_SPAWN    == "Could not execute the provided engine"
E_OPEN     == "Could not open the tar file"
E_ENTRY    == "Could not unpack entry"
E_DIR      == "Could not unpack a directory"
E_TARIO    == "tar: could not read the archive"
E_CONFIG   == "config: could not read the configuration"
E_CFGWRITE == "config: could not write the configuration"
E_NS       == "namespaces: could not start the namespace"
P_UTF8     == "Podman/Docker gives valid utf8 output"
P_WRITABLE == "path exists and is writable"
P_WAIT     == "namespaces: the UID/GID mapping could not be configured"


\* ----------------------------------------------------------------- create
\* The command line invokes create(args); any number of runs follow one
\* another, all for the same toolbox name.
Call ==
    /\ pc = "idle"
    /\ pc' = "config_new"
    /\ args' = NoArgs
    /\ result' = "none"
    /\ err' = NoneV
    /\ snap' = Disk
    /\ steps' = <<>>
    /\ spawnLog' = <<>>
    /\ createOut' = <<>>
    /\ cid' = <<>>
    /\ ns' = "none"
    /\ mapping' = NoneV
    /\ tarSrc' = NoneV
    /\ archive' = <<>>
    /\ cwdDirs' = {}
    /\ idx' = 1
    /\ dirs' = <<>>
    /\ unpacked' = <<>>
    /\ UNCHANGED disk

\* let mut config = Config::new(&args.name)?;
ConfigNew ==
    /\ pc = "config_new"
    /\ \E o \in ConfigNewOutcomes :
          IF o = "ok" THEN Goto(CreateOrder("config_new")) ELSE Fail(E_CONFIG)
    /\ Did("config_new")
    /\ UNCHANGED <<disk, engineSt, nsSt, tarSt, callSt>>

\* Path::new(new_root).exists()
PathExistsNever(exists) == FALSE

PathExists(exists) == exists

\* eyre::ensure!(!Path::new(new_root).exists(), ..)
Ensure ==
    /\ pc = "ensure"
    /\ IF PathExists(rootExists) THEN Fail(E_EXISTS) ELSE Goto(CreateOrder("ensure"))
    /\ Did("ensure")
    /\ UNCHANGED <<disk, engineSt, nsSt, tarSt, callSt>>

\* create_dir_all(new_root).wrap_err(..)?
CreateRoot ==
    /\ pc = "create_root"
    /\ \/ /\ rootExists' = TRUE
          /\ Goto(CreateOrder("create_root"))
       \/ /\ UNCHANGED rootExists
          /\ Fail(E_MKROOT)
    /\ Did("create_root")
    /\ UNCHANGED <<fs, cfg, tmpTar, engineSt, nsSt, tarSt, callSt>>

\* A config.write that ignores the override.
ShellToWriteNoOverride(a) == "default"

\* The shell that config.write persists: the override when one was given,
\* else the one Config::new chose.
ShellToWrite(a) == IF a.shell # NoneV THEN a.shell ELSE "default"

\* if let Some(sh) = args.shell { config.shell = sh; }  config.write(..)?;
ConfigWrite ==
    /\ pc = "config_write"
    /\ \E sh \in ShellArgs :
          /\ args' = [args EXCEPT !.shell = sh]
          /\ \E o \in ConfigWriteOutcomes :
                IF o = "ok"
                THEN cfg' = ShellToWrite(args') /\ Goto(CreateOrder("config_write"))
                ELSE UNCHANGED cfg /\ Fail(E_CFGWRITE)
    /\ Did("config_write")
    /\ UNCHANGED <<rootExists, fs, tmpTar, engineSt, nsSt, tarSt, snap>>

\* let tar_file = format!("/tmp/unbox-{}-image.tar", args.name);
TarFile == "/tmp/unbox-box-image.tar"

\* A dispatch that looks at the image first.
SourceOfImageFirst(a) ==
    IF a.image \in ImageArgs \ {NoneV}
    THEN IF a.engine # NoneV THEN "image" ELSE "no_engine"
    ELSE IF a.tar # NoneV THEN "tar" ELSE "no_source"

\* The if / else if / else of lines 66-83: which source the arguments name.
SourceOf(a) ==
    IF a.tar # NoneV THEN "tar"
    ELSE IF a.image # NoneV
         THEN IF a.engine # NoneV THEN "image" ELSE "no_engine"
         ELSE "no_source"

\* The fields lines 66-83 look at, for each way the command line can set
\* them: args.engine is read only when args.image is Some.  With args.tar the
\* command line may carry an image as well.
SourceArgs(a) ==
    { [a EXCEPT !.tar = t, !.image = i] : t \in TarArgs \ {NoneV}, i \in ImageArgs }
    \cup { [a EXCEPT !.tar = NoneV, !.image = NoneV] }
    \cup { [a EXCEPT !.tar = NoneV, !.image = i, !.engine = e] :
              i \in ImageArgs \ {NoneV}, e \in EngineArgs }

Dispatch ==
    /\ pc = "dispatch"
    /\ \E a \in SourceArgs(args) :
          /\ args' = a
          /\ CASE SourceOf(a) = "tar" ->
                    tarSrc' = a.tar /\ Goto("ns_start")
               [] SourceOf(a) = "image" ->
                    tarSrc' = TarFile /\ Goto("spawn_create")
               [] SourceOf(a) = "no_engine" ->
                    UNCHANGED tarSrc /\ Fail(E_NOENGINE)
               [] SourceOf(a) = "no_source" ->
                    UNCHANGED tarSrc /\ Fail(E_NOSOURCE)
    /\ Did("dispatch")
    /\ UNCHANGED <<disk, engineSt, nsSt, archive, cwdDirs, idx, dirs, unpacked,
                   snap>>

\* -------------------------------------------------------------- get_image
InGetImage(l) == l \in {"spawn_create", "spawn_export", "spawn_rm"}

Logged(cmd, arg, out, o) ==
    [cmd |-> cmd, arg |-> arg, output |-> out, status |-> o]

\* Continue get_image at l, or return to create (cid and the output drop).
GetImageGoto(l, out, id) ==
    /\ Goto(l)
    /\ IF InGetImage(l)
       THEN createOut' = out /\ cid' = id
       ELSE createOut' = <<>> /\ cid' = <<>>

\* let cid = spawn(engine, &["create", url])?.stdout;
\* let cid = from_utf8(&cid).expect(..).trim();
SpawnCreate ==
    /\ pc = "spawn_create"
    /\ \/ /\ spawnLog' = Append(spawnLog, Logged("create", args.image, NoneV, "noexec"))
          /\ Fail(E_SPAWN)
          /\ UNCHANGED <<createOut, cid>>
       \/ \E o \in SpawnOutcomes \ {"noexec"} :
             /\ spawnLog' = Append(spawnLog, Logged("create", args.image, NoneV, o))
             /\ \/ Panic(P_UTF8) /\ UNCHANGED <<createOut, cid>>
                \/ \E out \in Outputs :
                      GetImageGoto(GetImageOrder("spawn_create"), out, Trim(out))
    /\ Did("spawn_create")
    /\ UNCHANGED <<disk, nsSt, tarSt, callSt>>

\* spawn(engine, &["export", cid, "--output", tar_file])?;
SpawnExport ==
    /\ pc = "spawn_export"
    /\ \/ /\ spawnLog' = Append(spawnLog, Logged("export", cid, tarSrc, "noexec"))
          /\ Fail(E_SPAWN)
          /\ UNCHANGED <<createOut, cid, tmpTar>>
       \/ \E o \in SpawnOutcomes \ {"noexec"} :
             /\ spawnLog' = Append(spawnLog, Logged("export", cid, tarSrc, o))
             /\ tmpTar' = (tmpTar \/ o = "exit0")
             /\ GetImageGoto(GetImageOrder("spawn_export"), createOut, cid)
    /\ Did("spawn_export")
    /\ UNCHANGED <<rootExists, fs, cfg, nsSt, tarSt, callSt>>

\* spawn(engine, &["rm", cid])?;
SpawnRm ==
    /\ pc = "spawn_rm"
    /\ \/ /\ spawnLog' = Append(spawnLog, Logged("rm", cid, NoneV, "noexec"))
          /\ Fail(E_SPAWN)
          /\ UNCHANGED <<createOut, cid>>
       \/ \E o \in SpawnOutcomes \ {"noexec"} :
             /\ spawnLog' = Append(spawnLog, Logged("rm", cid, NoneV, o))
             /\ GetImageGoto(GetImageOrder("spawn_rm"), createOut, cid)
    /\ Did("spawn_rm")
    /\ UNCHANGED <<disk, nsSt, tarSt, callSt>>

\* --------------------------------------------------------- setup_new_root
\* let mut ns = Namespace::start(flags, mappings)?;
NsStart ==
    /\ pc = "ns_start"
    /\ \/ /\ Fail(E_NS)
          /\ UNCHANGED nsSt
       \/ /\ "ok" \in NamespaceStartOutcomes
          /\ ns' = "started"
          /\ \E m \in MappingOutcomes : mapping' = m
          /\ Goto(SetupOrder("ns_start"))
    /\ Did("ns_start")
    /\ UNCHANGED <<disk, engineSt, tarSt, callSt>>

\* ns.wait();
NsWait ==
    /\ pc = "ns_wait"
    /\ IF NamespaceWait(mapping) = "fatal"
       THEN Panic(P_WAIT) /\ UNCHANGED ns
       ELSE ns' = "joined" /\ Goto(SetupOrder("ns_wait"))
    /\ Did("ns_wait")
    /\ UNCHANGED <<mapping, disk, engineSt, tarSt, callSt>>


\* -------------------------------------------------------------- unpack_tar
\* What Path::is_dir can answer for the archive's paths: it looks the
\* relative path up on disk, from the current directory; a path is a
\* directory there only if its ancestors are.
CwdChoices(ar) ==
    { S \in SUBSET ArchivePaths(ar) :
        \A p \in S : \A q \in ArchivePaths(ar) : IsPrefix(q, p) => q \in S }

\* `path.is_dir()` of line 147: the entry's path is a directory on disk.
PathIsDir(e, cwd) == e.path \in cwd

\* File::open(tar) succeeds only on a file that is there: the one the user
\* named may be, the engine's is once an export has written it.
CanOpen == tarSrc # TarFile \/ tmpTar

\* let archive = File::open(tar).wrap_err(..)?;  Archive::new(archive)
OpenTar ==
    /\ pc = "unpack_tar"
    /\ \/ /\ Fail(E_OPEN)
          /\ UNCHANGED <<archive, cwdDirs, idx, dirs>>
       \/ /\ CanOpen
          /\ \E ar \in ArchivesUpTo(MaxEntries) : \E cwd \in CwdChoices(ar) :
                /\ archive' = ar
                /\ cwdDirs' = cwd
          /\ idx' = 1
          /\ dirs' = <<>>
          /\ Goto("entries")
    /\ Did("unpack_tar")
    /\ UNCHANGED <<disk, engineSt, nsSt, tarSrc, unpacked, callSt>>

\* One turn of `for entry in tar.entries()?`, lines 144-154.
NextEntry ==
    /\ pc = "entries"
    /\ IF idx > Len(archive)
       THEN /\ Goto("sort")
            /\ UNCHANGED <<fs, idx, dirs, unpacked>>
       ELSE LET e == archive[idx] IN
            \/ /\ Fail(E_TARIO)
               /\ UNCHANGED <<fs, idx, dirs, unpacked>>
            \/ /\ PathIsDir(e, cwdDirs)
               /\ dirs' = Append(dirs, e)
               /\ idx' = idx + 1
               /\ Goto("entries")
               /\ UNCHANGED <<fs, unpacked>>
            \/ /\ ~PathIsDir(e, cwdDirs)
               /\ unpacked' = Append(unpacked, e)
               /\ \/ /\ CanUnpack(fs, e)
                     /\ fs' = UnpackIn(fs, e)
                     /\ idx' = idx + 1
                     /\ Goto("entries")
                  \/ /\ ~Escapes(e.path)
                     /\ Fail(E_ENTRY)
                     /\ UNCHANGED <<fs, idx>>
               /\ UNCHANGED dirs
    /\ UNCHANGED <<rootExists, cfg, tmpTar, engineSt, nsSt, tarSrc, archive,
                   cwdDirs, steps, callSt>>

\* dirs.sort_unstable_by_key(|b| Reverse(b.path_bytes().len()));
SortDirs ==
    /\ pc = "sort"
    /\ \E t \in SortUnstableByKey(dirs) : dirs' = t
    /\ Goto("unpack_dirs")
    /\ UNCHANGED <<disk, engineSt, nsSt, tarSrc, archive, cwdDirs, idx,
                   unpacked, steps, callSt>>

\* One turn of `for mut dir in dirs`, lines 156-159, then Ok(()).
UnpackDir ==
    /\ pc = "unpack_dirs"
    /\ IF dirs = <<>>
       THEN /\ Goto(SetupOrder("unpack_tar"))
            /\ UNCHANGED <<fs, dirs, unpacked>>
       ELSE LET e == Head(dirs) IN
            /\ unpacked' = Append(unpacked, e)
            /\ \/ /\ CanUnpack(fs, e)
                  /\ fs' = UnpackIn(fs, e)
                  /\ dirs' = Tail(dirs)
                  /\ Goto("unpack_dirs")
               \/ /\ ~Escapes(e.path)
                  /\ Fail(E_DIR)
                  /\ UNCHANGED <<fs, dirs>>
    /\ UNCHANGED <<rootExists, cfg, tmpTar, engineSt, nsSt, tarSrc, archive,
                   cwdDirs, idx, steps, callSt>>

\* ------------------------------------------- create_dirs and resolv.conf
\* The tree after create_dir_all of the first n directories of ds.
RECURSIVE CreateDirsUpTo(_, _, _)
CreateDirsUpTo(f, ds, n) ==
    IF n = 0 THEN f
    ELSE MkDirs(CreateDirsUpTo(f, ds, n - 1), ds[n], 1)

\* create_dirs(new_root, &dirs)?: each create_dir_all is `expect`ed; the
\* loop panics at the first one that fails (position `stop`).
CreateDirs ==
    /\ pc = "create_dirs"
    /\ \E stop \in 1..(Len(PlaceholderDirs) + 1) :
          /\ \A i \in 1..(stop - 1) :
                CanMkDirs(CreateDirsUpTo(fs, PlaceholderDirs, i - 1),
                          PlaceholderDirs[i])
          /\ fs' = CreateDirsUpTo(fs, PlaceholderDirs, stop - 1)
          /\ IF stop > Len(PlaceholderDirs)
             THEN Goto(SetupOrder("create_dirs"))
             ELSE Panic(P_WRITABLE)
    /\ Did("create_dirs")
    /\ UNCHANGED <<rootExists, cfg, tmpTar, engineSt, nsSt, tarSt, callSt>>

\* File::create can create or truncate p: its parent is a directory and p
\* itself is not one.
CanCreateFile(f, p) == f[Parent(p)].kind = "dir" /\ f[p].kind # "dir"

\* File::create(format!("{new_root}/etc/resolv.conf")).expect(..);
CreateResolv ==
    /\ pc = "resolv"
    /\ \/ /\ CanCreateFile(fs, P_resolv)
          /\ fs' = IF fs[P_resolv].kind = "none"
                   THEN CreateNode(fs, P_resolv, FileNode)
                   ELSE fs
          /\ Goto(SetupOrder("resolv"))
       \/ /\ Panic(P_WRITABLE)
          /\ UNCHANGED fs
    /\ Did("resolv")
    /\ UNCHANGED <<rootExists, cfg, tmpTar, engineSt, nsSt, tarSt, callSt>>

\* ------------------------------------------------------------------ system
Next ==
    \/ Call
    \/ ConfigNew
    \/ Ensure
    \/ CreateRoot
    \/ ConfigWrite
    \/ Dispatch
    \/ SpawnCreate
    \/ SpawnExport
    \/ SpawnRm
    \/ NsStart
    \/ NsWait
    \/ OpenTar
    \/ NextEntry
    \/ SortDirs
    \/ UnpackDir
    \/ CreateDirs
    \/ CreateResolv

Spec == Init /\ [][Next]_vars


\* ------------------------------------------------- unpack_tar on its own
\* The statements a run with `--tar` has executed when unpack_tar has opened
\* the archive.
StepsToUnpack ==
    <<"config_new", "ensure", "create_root", "config_write", "dispatch",
      "ns_start", "ns_wait", "unpack_tar">>

\* The state of such a run at the top of the `for entry` loop, in a fresh
\* target, for each archive of up to MaxUnpackEntries entries and each answer
\* Path::is_dir can give for its paths.
InitUnpack ==
    /\ pc = "entries"
    /\ args = [tar |-> "rootfs.tar", image |-> NoneV, engine |-> Unread,
               shell |-> NoneV]
    /\ result = "none"
    /\ err = NoneV
    /\ rootExists = TRUE
    /\ fs = EmptyTree
    /\ cfg = "default"
    /\ tmpTar = FALSE
    /\ spawnLog = <<>>
    /\ createOut = <<>>
    /\ cid = <<>>
    /\ ns = "joined"
    /\ mapping = "mapped"
    /\ tarSrc = "rootfs.tar"
    /\ archive \in ArchivesUpTo(MaxUnpackEntries)
    /\ cwdDirs \in CwdChoices(archive)
    /\ idx = 1
    /\ dirs = <<>>
    /\ unpacked = <<>>
    /\ steps = StepsToUnpack
    /\ snap = [root |-> FALSE, fs |-> EmptyTree, cfg |-> NoneV, tmpTar |-> FALSE]

NextUnpack ==
    \/ NextEntry
    \/ SortDirs
    \/ UnpackDir

SpecUnpack == InitUnpack /\ [][NextUnpack]_vars

\* ------------------------------------------------------------ properties
Ended == pc = "idle" /\ result # "none"

Succeeded == pc = "idle" /\ result = "ok"

Executed(step) == \E i \in DOMAIN steps : steps[i] = step

\* unpack_tar has returned Ok(()): setup_new_root is at its next statement.
UnpackReturnedOk ==
    /\ pc = SetupOrder("unpack_tar")
    /\ steps[Len(steps)] = "unpack_tar"

\* C1: a run invoked while the target exists changes nothing on disk, spawns
\* no engine subprocess, starts no namespace and unpacks no entry; once the
\* target path is known (Config::new returned it) the run fails with the
\* target-exists error, and that error is returned only when the target
\* existed at the call, with the disk as it was.
C1_TargetExistsNoMutation ==
    /\ snap.root =>
          /\ Disk = snap
          /\ spawnLog = <<>>
          /\ ns = "none"
          /\ unpacked = <<>>
          /\ Ended => result = "err"
          /\ (Ended /\ Executed("ensure")) => err = E_EXISTS
    /\ (Ended /\ err = E_EXISTS) => (snap.root /\ Disk = snap)

\* A run ended with the target-exists error, on a target an earlier run had
\* populated.
C1_Witness ==
    /\ Ended
    /\ err = E_EXISTS
    /\ snap.root
    /\ fs[P_etc].kind = "dir"

\* C2 (as claimed): when create returns the configuration error (no tar and
\* no image, or an image without an engine) the target directory does not
\* exist and the configuration has not been written.
C2_ConfigErrorBeforeMkdir ==
    (Ended /\ result = "err" /\ err \in {E_NOSOURCE, E_NOENGINE}) =>
        (~rootExists /\ cfg = NoneV)

\* C3 (as claimed): when unpack_tar has succeeded, every directory that has a
\* directory entry in the archive carries the metadata recorded in that
\* entry: nothing was created under it after they were applied.
C3_DirMetadataRecorded ==
    UnpackReturnedOk =>
        \A i \in DOMAIN archive :
            (archive[i].kind = "dir" /\ ~Escapes(archive[i].path)) =>
                fs[archive[i].path] = [kind |-> "dir", meta |-> "recorded"]


\* id is `out` without its surrounding whitespace: out is whitespace, id,
\* whitespace, and id neither starts nor ends with whitespace.
IsTrimOf(id, out) ==
    /\ id # <<>> => ~IsWhitespace(id[1]) /\ ~IsWhitespace(id[Len(id)])
    /\ \E lead \in 0..Len(out) :
          /\ lead + Len(id) <= Len(out)
          /\ SubSeq(out, lead + 1, lead + Len(id)) = id
          /\ \A k \in DOMAIN out :
                (k <= lead \/ k > lead + Len(id)) => IsWhitespace(out[k])

EngineCommands == <<"create", "export", "rm">>

\* C4: the engine subprocesses of a run are create, export, rm in that order,
\* each at most once and each spawned only after the one before it returned;
\* the id given to export and to rm is create's standard output with its
\* surrounding whitespace trimmed.
C4_EngineOrderAndId ==
    /\ Len(spawnLog) <= Len(EngineCommands)
    /\ \A i \in DOMAIN spawnLog : spawnLog[i].cmd = EngineCommands[i]
    /\ \A i \in DOMAIN spawnLog : i > 1 => spawnLog[i].arg = cid \/ ~InGetImage(pc)
    /\ \A i, j \in DOMAIN spawnLog : (i > 1 /\ j > 1) => spawnLog[i].arg = spawnLog[j].arg
    /\ (InGetImage(pc) /\ Len(spawnLog) >= 1) => IsTrimOf(cid, createOut)
    /\ (pc = "spawn_rm") => (Len(spawnLog) = 2 /\ IsTrimOf(spawnLog[2].arg, createOut))
    /\ (pc = "spawn_export") => Len(spawnLog) = 1
    /\ (pc = "spawn_create") => Len(spawnLog) = 0

\* export has been given an id that trimming shortened, and rm is next.
C4_Witness ==
    /\ pc = "spawn_rm"
    /\ Len(spawnLog) = 2
    /\ spawnLog[2].arg # <<>>
    /\ spawnLog[2].arg # createOut

Failing(i) == spawnLog[i].status # "exit0"

\* C5 (as claimed): after an export that failed (it could not be executed or
\* exited with a failing status) rm is not invoked, and after a create that
\* failed neither export nor rm is.
C5_NoRmAfterFailedExport ==
    \A i \in DOMAIN spawnLog : Failing(i) => Len(spawnLog) = i

\* C6 (as claimed): once an engine subcommand has returned a failing exit
\* status, setup_new_root is never started (no namespace, no extraction) and
\* the run does not end in success.
C6_FailingStatusIsEngineError ==
    (\E i \in DOMAIN spawnLog : spawnLog[i].status = "exit1") =>
        /\ ~Executed("ns_start")
        /\ ns = "none"
        /\ unpacked = <<>>
        /\ result # "ok"

PlaceholderSet == {P_host, P_proc, P_sys, P_dev}

\* C7: when create returns success, host, proc, sys and dev are directories
\* under the target and etc/resolv.conf is a file there, in a directory etc
\* that extraction produced.
C7_PlaceholdersOnSuccess ==
    Succeeded =>
        /\ \A d \in PlaceholderSet : fs[d].kind = "dir"
        /\ fs[P_resolv].kind = "file"
        /\ fs[P_etc].kind = "dir"
        /\ \E i \in DOMAIN unpacked : IsPrefix(P_etc, unpacked[i].path)

\* A successful run whose archive had none of the placeholders.
C7_Witness ==
    /\ Succeeded
    /\ ArchivePaths(archive) \cap PlaceholderSet = {}
    /\ unpacked # <<>>

PipelineOrder ==
    <<"config_new", "ensure", "create_root", "config_write", "dispatch",
      "spawn_create", "spawn_export", "spawn_rm",
      "ns_start", "ns_wait", "unpack_tar", "create_dirs", "resolv">>

Rank ==
    [ step \in Range(PipelineOrder) |->
        CHOOSE k \in DOMAIN PipelineOrder : PipelineOrder[k] = step ]

C9_FailureAbortsPipeline ==
    \A i \in DOMAIN spawnLog :
        Failing(i) =>
            /\ steps[Len(steps)] = "spawn_" \o spawnLog[i].cmd
            /\ \A j \in DOMAIN spawnLog : spawnLog[j].cmd = spawnLog[i].cmd => j = i
            /\ result # "ok"

\* C10: when the UID/GID mapping could not be configured, the run goes no
\* further than wait: it panics there, no entry is unpacked, the tree under
\* the target is untouched and success is never reported.
C10_MappingFailureFatal ==
    mapping = "failed" =>
        /\ pc \in {"ns_wait", "idle"}
        /\ pc = "idle" => (result = "panic" /\ err = P_WAIT)
        /\ unpacked = <<>>
        /\ fs = snap.fs
        /\ ~Executed("unpack_tar")
        /\ ~Executed("create_dirs")
        /\ ~Executed("resolv")

\* A run that wait ended because the mapping had failed.
C10_Witness ==
    /\ mapping = "failed"
    /\ Executed("ns_wait")
    /\ pc = "idle"
    /\ result = "panic"

\* The statements of setup_new_root that follow ns.wait().
AfterWait == {"unpack_tar", "create_dirs", "resolv"}

\* C11: nothing that follows wait happens before wait has returned: while an
\* entry has been unpacked, a placeholder directory or the resolver file has
\* been created (the tree under the target differs from what the run found),
\* or the run is at or past unpack_tar, Namespace::start has returned
\* successfully, wait has returned after it, and both ran before every later
\* statement.
C11_WaitBeforeLaterSteps ==
    (\/ unpacked # <<>>
     \/ fs # snap.fs
     \/ pc \in AfterWait \cup {"entries", "sort", "unpack_dirs"}
     \/ \E s \in AfterWait : Executed(s)) =>
        /\ ns = "joined"
        /\ \E i, j \in DOMAIN steps :
              /\ steps[i] = "ns_start"
              /\ steps[j] = "ns_wait"
              /\ i < j
              /\ \A k \in DOMAIN steps : steps[k] \in AfterWait => j < k

\* Extraction has unpacked an entry and the placeholder directories are next,
\* in a namespace that was started and joined.
C11_Witness ==
    /\ pc = "create_dirs"
    /\ unpacked # <<>>
    /\ fs # snap.fs
    /\ ns = "joined"

\* step a has run in this run, and before any run of step b.
Before(a, b) ==
    \E i \in DOMAIN steps :
        /\ steps[i] = a
        /\ \A k \in DOMAIN steps : steps[k] = b => i < k

\* C12: Config::new has returned before the namespace is started, and
\* config.write has completed successfully before extraction begins: in a
\* run that has opened the archive or unpacked an entry, the configuration
\* on disk is the one this run wrote, with the shell the command line gave
\* when it gave one and the default shell otherwise.
C12_ConfigBeforeExtraction ==
    /\ (ns # "none" \/ Executed("ns_start")) => Before("config_new", "ns_start")
    /\ (unpacked # <<>> \/ Executed("unpack_tar")) =>
          /\ Before("config_write", "unpack_tar")
          /\ snap.cfg = NoneV
          /\ cfg # NoneV
          /\ args.shell \in ShellArgs
          /\ args.shell # NoneV => cfg = args.shell
          /\ args.shell = NoneV => cfg = "default"

\* An entry has been unpacked in a run that was given a shell override.
C12_Witness ==
    /\ unpacked # <<>>
    /\ args.shell \in ShellArgs \ {NoneV}
    /\ cfg = args.shell

\* unpack_tar returned an error from one of its loops.
UnpackFailed ==
    /\ pc = "idle"
    /\ result = "err"
    /\ err \in {E_TARIO, E_ENTRY, E_DIR}

\* The entries unpack_in wrote before the failure: all those it was called
\* on, less the one it failed on.
UnpackedBeforeFailure ==
    IF err = E_TARIO THEN unpacked ELSE SubSeq(unpacked, 1, Len(unpacked) - 1)

\* C13: when unpack_tar fails at some entry, the target directory still
\* exists and every entry unpacked before the failure is still in the
\* destination, with the kind it was unpacked with: nothing is rolled back.
C13_NoRollback ==
    UnpackFailed =>
        /\ rootExists
        /\ \A i \in DOMAIN UnpackedBeforeFailure :
              LET e == UnpackedBeforeFailure[i] IN
              ~Escapes(e.path) => fs[e.path].kind = e.kind

\* unpack_tar failed on its third entry or later, in either loop.
C13_Witness ==
    /\ UnpackFailed
    /\ err \in {E_ENTRY, E_DIR}
    /\ Len(UnpackedBeforeFailure) >= 2
    /\ \A i \in DOMAIN UnpackedBeforeFailure :
          ~Escapes(UnpackedBeforeFailure[i].path)

\* C14 (as claimed): an archive with an entry whose path escapes the
\* destination makes extraction fail with an extraction error: unpack_tar
\* never returns Ok(()) on such an archive.
C14_EscapingPathFails ==
    (\E i \in DOMAIN archive : Escapes(archive[i].path)) => ~UnpackReturnedOk

\* The entries the first loop has been through.
Seen == { archive[i] : i \in 1..(idx - 1) }

\* C15 (as claimed): unpack_tar is two-phase by entry kind: in the first
\* loop an entry is deferred exactly when its kind is directory and is
\* unpacked at once, in archive order, when it is not; no directory entry is
\* unpacked before every non-directory entry of the archive has been.
C15_TwoPhaseByKind ==
    /\ pc = "entries" =>
          /\ \A e \in Seen : e.kind = "dir" <=> e \in Range(dirs)
          /\ \A e \in Seen : e.kind # "dir" <=> e \in Range(unpacked)
    /\ \A i \in DOMAIN unpacked :
          unpacked[i].kind = "dir" =>
             \A j \in DOMAIN archive :
                archive[j].kind # "dir" =>
                   \E k \in 1..(i - 1) : unpacked[k] = archive[j]

\* An entry the first loop deferred (line 148) rather than unpacked.
Deferred(e) == PathIsDir(e, cwdDirs)

\* The deferred entries unpack_in has been called on, in the order of the
\* calls.
DeferredUnpacked == SelectSeq(unpacked, Deferred)

DirLoopFailed == pc = "idle" /\ result = "err" /\ err = E_DIR

\* C16: the deferred entries are unpacked in non-increasing order of the
\* byte length of their path: of two that have been unpacked the earlier is
\* at least as long as the later, and each is at least as long as every one
\* still waiting; when one fails to unpack, the run ends there and none of
\* those after it is unpacked.
C16_LongestPathFirst ==
    /\ \A i, j \in DOMAIN DeferredUnpacked :
          i < j => PathBytesLen(DeferredUnpacked[i]) >= PathBytesLen(DeferredUnpacked[j])
    /\ pc = "unpack_dirs" =>
          \A i \in DOMAIN DeferredUnpacked : \A k \in DOMAIN dirs :
              PathBytesLen(DeferredUnpacked[i]) >= PathBytesLen(dirs[k])
    /\ DirLoopFailed =>
          /\ DeferredUnpacked # <<>>
          /\ dirs # <<>>
          /\ Head(dirs) = unpacked[Len(unpacked)]
          /\ \A k \in 2..Len(dirs) : dirs[k] \notin Range(unpacked)

\* The second deferred entry failed to unpack with a third still waiting, in
\* an archive that held the longest of them last.
C16_Witness ==
    /\ DirLoopFailed
    /\ Len(DeferredUnpacked) = 2
    /\ Len(dirs) = 2
    /\ Deferred(archive[Len(archive)])
    /\ DeferredUnpacked[1] = archive[Len(archive)]
    /\ PathBytesLen(DeferredUnpacked[1]) > PathBytesLen(DeferredUnpacked[2])

\* The run has got past create_dir_all: it created the target.
CreatedTarget ==
    \E i \in DOMAIN steps : steps[i] = "create_root" /\ i < Len(steps)

\* C17: the target is created at most once and never removed: a run creates
\* it only when it found none, a target found at the call is still there at
\* every later point, a run that created the target and then failed (by an
\* error or a panic, at any later step) leaves it in place, and a run that
\* finds it goes no further than the existence check, where it fails with
\* the target-exists error.
C17_TargetNeverCleanedUp ==
    /\ Executed("create_root") => ~snap.root
    /\ snap.root => rootExists
    /\ CreatedTarget => rootExists
    /\ (Ended /\ result # "ok" /\ CreatedTarget) => rootExists
    /\ snap.root =>
          /\ \A i \in DOMAIN steps : steps[i] \in {"config_new", "ensure"}
          /\ (Ended /\ Executed("ensure")) => (result = "err" /\ err = E_EXISTS)
          /\ pc \in {"config_new", "ensure", "idle"}

\* A run has failed with the target-exists error on a target that an earlier,
\* failed run left behind: it has no resolver file.
C17_Witness ==
    /\ Ended
    /\ err = E_EXISTS
    /\ snap.root
    /\ rootExists
    /\ fs[P_resolv].kind = "none"

\* C18: a tar path on the command line takes precedence over an image: in
\* such a run no engine subprocess is spawned, nothing is exported, and the
\* archive setup_new_root is given and opens is the path supplied; in a run
\* with an image and no tar path, the archive opened is the very path that
\* export was given as --output.
C18_TarTakesPrecedence ==
    /\ args.tar \in TarArgs \ {NoneV} =>
          /\ spawnLog = <<>>
          /\ tmpTar = snap.tmpTar
          /\ tarSrc = args.tar
          /\ ~(\E s \in {"spawn_create", "spawn_export", "spawn_rm"} : Executed(s))
    /\ (args.tar = NoneV /\ Executed("unpack_tar")) =>
          /\ args.image \in ImageArgs \ {NoneV}
          /\ \E i \in DOMAIN spawnLog : spawnLog[i].cmd = "export"
          /\ \A i \in DOMAIN spawnLog :
                spawnLog[i].cmd = "export" => spawnLog[i].output = tarSrc
    /\ Executed("unpack_tar") => tarSrc \in (TarArgs \ {NoneV}) \cup {TarFile}

\* An entry has been unpacked in a run given both a tar path and an image.
C18_Witness ==
    /\ args.tar \in TarArgs \ {NoneV}
    /\ args.image \in ImageArgs \ {NoneV}
    /\ unpacked # <<>>
    /\ tarSrc = args.tar

\* The number of unpack_in calls made on entry e.
TimesUnpacked(e) == Cardinality({ i \in DOMAIN unpacked : unpacked[i] = e })

====
